---- MODULE Spec2Model ----
(***************************************************************************)
(* Model of pywhy_graphs/array/export.py: the conversion of a mixed-edge   *)
(* causal graph to a causal-learn endpoint array (_graph_to_clearn_arr,    *)
(* graph_to_arr) and back (clearn_arr_to_graph).                           *)
(*                                                                         *)
(* A graph is a record [nodes, edges]: nodes is the sequence of nodes in   *)
(* insertion order (what iterating G.nodes yields) and edges a set of      *)
(* triples <<type, u, v>>.  Directed and circle edges live in directed     *)
(* sub-graphs, so <<t, u, v>> is the edge u -> v (for circle: the circle   *)
(* mark sits at v).  Bidirected, undirected and other labels live in       *)
(* undirected sub-graphs and are stored with u < v.                        *)
(* An array is a function over <<row, column>> with 1-based indices.       *)
(***************************************************************************)
EXTENDS Integers, Sequences, FiniteSets, TLC

\* ------------------------------------------------------------------ bounds
\* Largest number of nodes of an input graph or rows/columns of an input array.
MaxNodes == 3
\* Largest number of edges of an input graph.
MaxEdges == 3
\* Largest number of node pairs with a non-zero cell in an input array.
MaxPairs == 1

\* ------------------------------------------------- pywhy_graphs.config enums
\* EdgeType values.
DIRECTED == "directed"
BIDIRECTED == "bidirected"
UNDIRECTED == "undirected"
CIRCLE_EDGE == "circle"
\* A label that is no EdgeType value (MixedEdgeGraph accepts any label).
OTHER_EDGE == "other"

EdgeType == {DIRECTED, BIDIRECTED, UNDIRECTED, CIRCLE_EDGE}
DirectedSubgraphs == {DIRECTED, CIRCLE_EDGE}
AllLabels == EdgeType \cup {OTHER_EDGE}

\* CLearnEndpoint values (causal-learn's Endpoint numbering, NULL = 0 being
\* what np.zeros leaves in an untouched cell).
TAIL == -1
NULL == 0
ARROW == 1
CIRCLE == 2
STAR == 3
TAIL_AND_ARROW == 4
ARROW_AND_ARROW == 5
TAIL_AND_TAIL == 6

CLearnEndpoint ==
    {TAIL, NULL, ARROW, CIRCLE, STAR, TAIL_AND_ARROW, ARROW_AND_ARROW, TAIL_AND_TAIL}

\* ------------------------------------------------------------ graph queries
NodeSet(G) == {G.nodes[i] : i \in 1..Len(G.nodes)}

\* G.has_edge(u, v, edge_type): directional in a directed sub-graph.
has_edge(G, u, v, t) ==
    IF t \in DirectedSubgraphs
    THEN <<t, u, v>> \in G.edges
    ELSE <<t, u, v>> \in G.edges \/ <<t, v, u>> \in G.edges

\* edge_types(G, u, v): the edge types present between u and v.
edge_types(G, u, v) ==
    {t \in AllLabels : has_edge(G, u, v, t) \/ has_edge(G, v, u, t)}

\* G.neighbors(u): the nodes adjacent to u through any edge type.
neighbors(G, u) ==
    {v \in NodeSet(G) : edge_types(G, u, v) # {}}

\* arr_idx.index(u)
IndexOf(seq, x) == CHOOSE i \in 1..Len(seq) : seq[i] = x

\* ------------------------------------------------------------------ encoder
Assign(eu, ev) == [act |-> "assign", endpoint_u |-> eu, endpoint_v |-> ev]
Raise == [act |-> "raise", endpoint_u |-> NULL, endpoint_v |-> NULL]
\* No branch of the if/elif chain matched: endpoint_u and endpoint_v keep
\* whatever an earlier iteration of the loop bound them to.
FallThrough == [act |-> "none", endpoint_u |-> NULL, endpoint_v |-> NULL]

\* OneEdgeType with NULL for the two tails of an undirected edge.
OneEdgeType_NullForTail(G, u, v, edge_type) ==
    IF edge_type = DIRECTED
    THEN IF has_edge(G, u, v, DIRECTED)
         THEN Assign(TAIL, ARROW)
         ELSE Assign(ARROW, TAIL)
    ELSE IF edge_type = BIDIRECTED THEN Assign(ARROW, ARROW)
    ELSE IF edge_type = UNDIRECTED THEN Assign(NULL, NULL)
    ELSE IF edge_type = CIRCLE_EDGE THEN Assign(CIRCLE, CIRCLE)
    ELSE Raise

\* Lines 36-63: exactly one edge type between u and v.
OneEdgeType(G, u, v, edge_type) ==
    IF edge_type = DIRECTED
    THEN IF has_edge(G, u, v, DIRECTED)
         THEN Assign(TAIL, ARROW)
         ELSE Assign(ARROW, TAIL)
    ELSE IF edge_type = BIDIRECTED THEN Assign(ARROW, ARROW)
    ELSE IF edge_type = UNDIRECTED THEN Assign(TAIL, TAIL)
    ELSE IF edge_type = CIRCLE_EDGE THEN Assign(CIRCLE, CIRCLE)
    ELSE Raise

\* Lines 93-114: two edge types, one of them circle.
CircleAndOther(G, u, v) ==
    IF has_edge(G, u, v, CIRCLE_EDGE)
    THEN IF has_edge(G, v, u, DIRECTED) THEN Assign(CIRCLE, CIRCLE)
         ELSE IF has_edge(G, v, u, UNDIRECTED) THEN Assign(TAIL, CIRCLE)
         ELSE Raise
    ELSE IF has_edge(G, u, v, DIRECTED) THEN Assign(CIRCLE, CIRCLE)
         ELSE IF has_edge(G, u, v, UNDIRECTED) THEN Assign(CIRCLE, TAIL)
         ELSE Raise

\* Lines 64-114: exactly two edge types between u and v.
TwoEdgeTypes(G, u, v, uv_edge_types) ==
    IF DIRECTED \in uv_edge_types /\ BIDIRECTED \in uv_edge_types
    THEN IF has_edge(G, u, v, DIRECTED)
         THEN Assign(TAIL_AND_ARROW, ARROW_AND_ARROW)
         ELSE Assign(ARROW_AND_ARROW, TAIL_AND_ARROW)
    ELSE IF DIRECTED \in uv_edge_types /\ UNDIRECTED \in uv_edge_types
    THEN IF has_edge(G, u, v, DIRECTED)
         THEN Assign(TAIL_AND_TAIL, TAIL_AND_ARROW)
         ELSE Assign(TAIL_AND_ARROW, TAIL_AND_TAIL)
    ELSE IF BIDIRECTED \in uv_edge_types /\ UNDIRECTED \in uv_edge_types
    THEN Assign(TAIL_AND_ARROW, TAIL_AND_ARROW)
    ELSE IF CIRCLE_EDGE \in uv_edge_types
    THEN CircleAndOther(G, u, v)
    ELSE FallThrough

\* PairEndpoints with "two or more" for "exactly two" edge types.
PairEndpoints_TwoOrMore(G, u, v) ==
    LET uv_edge_types == edge_types(G, u, v) IN
    IF Cardinality(uv_edge_types) = 1
    THEN OneEdgeType(G, u, v, CHOOSE t \in uv_edge_types : TRUE)
    ELSE TwoEdgeTypes(G, u, v, uv_edge_types)

\* Lines 35-119: the endpoint statements one visit of the ordered pair (u, v)
\* executes.
PairEndpoints(G, u, v) ==
    LET uv_edge_types == edge_types(G, u, v) IN
    IF Cardinality(uv_edge_types) = 1
    THEN OneEdgeType(G, u, v, CHOOSE t \in uv_edge_types : TRUE)
    ELSE IF Cardinality(uv_edge_types) = 2
    THEN TwoEdgeTypes(G, u, v, uv_edge_types)
    ELSE Raise

\* SetCells with the two cells exchanged.
SetCells_Transposed(arr, udx, vdx, endpoint_u, endpoint_v) ==
    [arr EXCEPT ![<<udx, vdx>>] = endpoint_v, ![<<vdx, udx>>] = endpoint_u]

\* Lines 121-123: the cells one visit writes.
SetCells(arr, udx, vdx, endpoint_u, endpoint_v) ==
    [arr EXCEPT ![<<udx, vdx>>] = endpoint_u, ![<<vdx, udx>>] = endpoint_v]

\* Lines 30-123: the body of the loop for an adjacent ordered pair.  st is the
\* function's local state: the array, endpoint_u and endpoint_v (bound says
\* whether an iteration has assigned them yet) and whether it has raised.
VisitPair(G, u, v, st) ==
    LET p == PairEndpoints(G, u, v)
        udx == IndexOf(G.nodes, u)
        vdx == IndexOf(G.nodes, v)
    IN
    IF p.act = "raise" THEN [st EXCEPT !.status = "raised", !.error = "RuntimeError"]
    ELSE IF p.act = "none" /\ ~st.bound
    THEN [st EXCEPT !.status = "raised", !.error = "UnboundLocalError"]
    ELSE LET eu == IF p.act = "assign" THEN p.endpoint_u ELSE st.endpoint_u
             ev == IF p.act = "assign" THEN p.endpoint_v ELSE st.endpoint_v
         IN [st EXCEPT !.arr = SetCells(st.arr, udx, vdx, eu, ev),
                       !.endpoint_u = eu, !.endpoint_v = ev, !.bound = TRUE]

\* Lines 20-28: for u in G.nodes: for v in G.nodes, visit number k (row-major).
RECURSIVE EncoderLoop(_, _, _)
EncoderLoop(G, k, st) ==
    LET n == Len(G.nodes) IN
    IF st.status = "raised" \/ k > n * n THEN st
    ELSE LET u == G.nodes[((k - 1) \div n) + 1]
             v == G.nodes[((k - 1) % n) + 1]
         IN IF u = v \/ v \notin neighbors(G, u)
            THEN EncoderLoop(G, k + 1, st)
            ELSE EncoderLoop(G, k + 1, VisitPair(G, u, v, st))

Zeros(rows, cols) == [c \in (1..rows) \X (1..cols) |-> 0]

\* _graph_to_clearn_arr(G): [status, error, arr, arr_idx].
graph_to_clearn_arr(G) ==
    LET n == Len(G.nodes)
        st == EncoderLoop(G, 1, [arr |-> Zeros(n, n), endpoint_u |-> NULL,
                                 endpoint_v |-> NULL, bound |-> FALSE,
                                 status |-> "ok", error |-> "none"])
    IN [status |-> st.status, error |-> st.error, arr |-> st.arr,
        arr_idx |-> G.nodes, n |-> n]

\* ------------------------------------------------------------ graph_to_arr
\* numpy's binary search for one key (side 'left'), from the bounds it is given:
\* the smallest index it settles on, all indices 0-based.
RECURSIVE BinSearch(_, _, _, _)
BinSearch(a, key, min_idx, max_idx) ==
    IF min_idx < max_idx
    THEN LET mid_idx == min_idx + ((max_idx - min_idx) \div 2) IN
         IF a[mid_idx + 1] < key
         THEN BinSearch(a, key, mid_idx + 1, max_idx)
         ELSE BinSearch(a, key, min_idx, mid_idx)
    ELSE min_idx

\* numpy's loop over the keys: each search starts from bounds left by the
\* previous key (min_idx = max_idx = the previous result), which is only right
\* when both arrays are sorted.
RECURSIVE SearchLoop(_, _, _, _, _)
SearchLoop(a, keys, k, prev, out) ==
    IF k > Len(keys) THEN out
    ELSE LET arr_len == Len(a)
             first == (k = 1)
             goes_up == ~first /\ keys[k - 1] < keys[k]
             min_idx == IF goes_up THEN prev ELSE 0
             max_idx == IF first \/ goes_up THEN arr_len
                        ELSE IF prev < arr_len THEN prev + 1 ELSE arr_len
             r == BinSearch(a, keys[k], min_idx, max_idx)
         IN SearchLoop(a, keys, k + 1, r, Append(out, r))

\* np.searchsorted(a, keys): 0-based insertion indices.
searchsorted(a, keys) == SearchLoop(a, keys, 1, 0, <<>>)

NoOrder == [given |-> FALSE, seq |-> <<>>]
Order(seq) == [given |-> TRUE, seq |-> seq]

\* Lines 317-320: the reordering by node_order.
Reorder(res, node_order) ==
    LET n == res.n
        new_order == searchsorted(node_order, res.arr_idx)
    IN IF \E i \in 1..n : new_order[i] >= n
       THEN [res EXCEPT !.status = "raised", !.error = "IndexError"]
       ELSE [res EXCEPT
               !.arr = [c \in (1..n) \X (1..n) |->
                          res.arr[<<new_order[c[1]] + 1, new_order[c[2]] + 1>>]],
               !.arr_idx = [i \in 1..n |-> res.arr_idx[new_order[i] + 1]]]

\* graph_to_arr(G, node_order=...)
graph_to_arr(G, node_order) ==
    LET res == graph_to_clearn_arr(G) IN
    IF res.status = "raised" THEN res
    ELSE IF node_order.given THEN Reorder(res, node_order.seq)
    ELSE res

\* ------------------------------------------------------------------ decoder
GraphTypes == {"dag", "admg", "cpdag", "pag"}

\* The edge types of the class clearn_arr_to_graph instantiates (lines 166-173):
\* ADMG for 'dag' and 'admg', CPDAG for 'cpdag', PAG for 'pag'.
ClassEdgeTypes(graph_type) ==
    IF graph_type = "cpdag" THEN {DIRECTED, UNDIRECTED}
    ELSE IF graph_type = "pag" THEN {DIRECTED, BIDIRECTED, UNDIRECTED, CIRCLE_EDGE}
    ELSE {DIRECTED, BIDIRECTED, UNDIRECTED}

EmptyGraph == [nodes |-> <<>>, edges |-> {}]

AddNode(nodes, x) ==
    IF \E i \in 1..Len(nodes) : nodes[i] = x THEN nodes ELSE Append(nodes, x)

\* How the edge u - v of type t is stored (see the module's header).
StoredEdge(u, v, t) ==
    IF t \in DirectedSubgraphs \/ u < v THEN <<t, u, v>> ELSE <<t, v, u>>

\* graph.add_edge(u, v, edge_type=graph.<t>_edge_name) on a graph of the class
\* with edge types `types`: the class lacks the attribute when t is not one of
\* its edge types.  g is [status, error, graph].
add_edge(g, types, u, v, t) ==
    IF g.status = "raised" THEN g
    ELSE IF t \notin types
    THEN [g EXCEPT !.status = "raised", !.error = "AttributeError"]
    ELSE [g EXCEPT !.graph = [nodes |-> AddNode(AddNode(g.graph.nodes, u), v),
                              edges |-> g.graph.edges \cup {StoredEdge(u, v, t)}]]

CompoundCodes == {ARROW_AND_ARROW, TAIL_AND_ARROW, TAIL_AND_TAIL}

\* Lines 190-230: one of the two endpoints is a compound code.  The edges to
\* add, in order, each <<from, to, type>>.
CompoundEdges(u, v, endpoint_u, endpoint_v) ==
    IF endpoint_v = ARROW_AND_ARROW /\ endpoint_u = TAIL_AND_ARROW
    THEN << <<u, v, DIRECTED>>, <<u, v, BIDIRECTED>> >>
    ELSE IF endpoint_u = ARROW_AND_ARROW /\ endpoint_v = TAIL_AND_ARROW
    THEN << <<v, u, DIRECTED>>, <<u, v, BIDIRECTED>> >>
    ELSE IF endpoint_u = TAIL_AND_TAIL /\ endpoint_v = TAIL_AND_ARROW
    THEN << <<u, v, DIRECTED>>, <<u, v, UNDIRECTED>> >>
    ELSE IF endpoint_v = TAIL_AND_TAIL /\ endpoint_u = TAIL_AND_ARROW
    THEN << <<v, u, DIRECTED>>, <<u, v, UNDIRECTED>> >>
    ELSE IF endpoint_v = TAIL_AND_ARROW /\ endpoint_u = TAIL_AND_ARROW
    THEN << <<u, v, BIDIRECTED>>, <<u, v, UNDIRECTED>> >>
    ELSE <<>>

\* Lines 235-247: simple codes, no circle.
SimpleEdges(u, v, endpoint_u, endpoint_v) ==
    IF endpoint_v = ARROW /\ endpoint_u = ARROW THEN << <<u, v, BIDIRECTED>> >>
    ELSE IF endpoint_v = ARROW /\ endpoint_u = TAIL THEN << <<u, v, DIRECTED>> >>
    ELSE IF endpoint_u = ARROW /\ endpoint_v = TAIL THEN << <<v, u, DIRECTED>> >>
    ELSE IF endpoint_v = TAIL /\ endpoint_u = TAIL THEN << <<u, v, UNDIRECTED>> >>
    ELSE <<>>

\* Lines 249-264: simple codes, one of them a circle: each side on its own.
CircleEdges(u, v, endpoint_u, endpoint_v) ==
    (IF endpoint_u = CIRCLE THEN << <<v, u, CIRCLE_EDGE>> >>
     ELSE IF endpoint_u = ARROW THEN << <<v, u, DIRECTED>> >>
     ELSE IF endpoint_u = TAIL THEN << <<v, u, UNDIRECTED>> >>
     ELSE <<>>)
    \o
    (IF endpoint_v = CIRCLE THEN << <<u, v, CIRCLE_EDGE>> >>
     ELSE IF endpoint_v = ARROW THEN << <<u, v, DIRECTED>> >>
     ELSE IF endpoint_v = TAIL THEN << <<u, v, UNDIRECTED>> >>
     ELSE <<>>)

\* Lines 184-264: the add_edge calls for the cell pair of u and v.
PairEdges(u, v, endpoint_u, endpoint_v) ==
    IF endpoint_u \in CompoundCodes \/ endpoint_v \in CompoundCodes
    THEN CompoundEdges(u, v, endpoint_u, endpoint_v)
    ELSE IF endpoint_u # CIRCLE /\ endpoint_v # CIRCLE
    THEN SimpleEdges(u, v, endpoint_u, endpoint_v)
    ELSE CircleEdges(u, v, endpoint_u, endpoint_v)

RECURSIVE AddEdges(_, _, _, _)
AddEdges(g, types, calls, i) ==
    IF i > Len(calls) THEN g
    ELSE AddEdges(add_edge(g, types, calls[i][1], calls[i][2], calls[i][3]),
                  types, calls, i + 1)

\* Lines 182-264: for udx, vdx in zip(*np.triu_indices(n_nodes, k=1)), visited
\* row by row; k numbers the cells of the array row-major.
RECURSIVE DecoderLoop(_, _, _, _)
DecoderLoop(in, types, k, g) ==
    LET n == in.rows IN
    IF g.status = "raised" \/ k > n * n THEN g
    ELSE LET udx == ((k - 1) \div n) + 1
             vdx == ((k - 1) % n) + 1
         IN IF udx >= vdx THEN DecoderLoop(in, types, k + 1, g)
            ELSE IF vdx > Len(in.arr_idx)
            THEN [g EXCEPT !.status = "raised", !.error = "IndexError"]
            ELSE DecoderLoop(in, types, k + 1,
                     AddEdges(g, types,
                              PairEdges(in.arr_idx[udx], in.arr_idx[vdx],
                                        in.arr[<<udx, vdx>>], in.arr[<<vdx, udx>>]),
                              1))

\* graph.to_directed() (line 267): every edge as directed edges, an edge of an
\* undirected sub-graph in both directions.
to_directed(graph) ==
    [nodes |-> graph.nodes,
     edges |-> {<<DIRECTED, e[2], e[3]>> : e \in graph.edges}
               \cup {<<DIRECTED, e[3], e[2]>> :
                       e \in {x \in graph.edges : x[1] \notin DirectedSubgraphs}}]

Raised(error) == [status |-> "raised", error |-> error, graph |-> EmptyGraph]

\* ValidationError without the check of the array's values.
ValidationError_AnyValue(in) ==
    IF in.rows # in.cols THEN "RuntimeError"
    ELSE IF Len(in.arr_idx) # in.rows THEN "RuntimeError"
    ELSE IF in.graph_type \notin GraphTypes THEN "RuntimeError"
    ELSE "none"

\* Lines 146-178: what the decoder checks before it builds anything.
\* "none" when the input passes.
ValidationError(in) ==
    IF in.rows # in.cols THEN "RuntimeError"
    ELSE IF Len(in.arr_idx) # in.rows THEN "RuntimeError"
    ELSE IF \E c \in DOMAIN in.arr : in.arr[c] \notin CLearnEndpoint THEN "RuntimeError"
    ELSE IF in.graph_type \notin GraphTypes THEN "RuntimeError"
    ELSE "none"

\* clearn_arr_to_graph(arr, arr_idx, graph_type) on
\* in = [rows, cols, arr, arr_idx, graph_type]: [status, error, graph].
clearn_arr_to_graph(in) ==
    IF ValidationError(in) # "none" THEN Raised(ValidationError(in))
    ELSE LET g == DecoderLoop(in, ClassEdgeTypes(in.graph_type), 1,
                              [status |-> "ok", error |-> "none", graph |-> EmptyGraph])
         IN IF g.status = "raised" THEN Raised(g.error)
            ELSE IF in.graph_type = "dag"
            THEN [g EXCEPT !.graph = to_directed(g.graph)]
            ELSE g

\* ------------------------------------------------------------------- inputs
Identity(n) == [i \in 1..n |-> i]

\* The orders in which n nodes 1..n can have been inserted.
Perms(n) == {p \in [1..n -> 1..n] : \A i, j \in 1..n : i # j => p[i] # p[j]}

\* The edges a graph over the nodes 1..n can hold: directed and circle edges in
\* either direction, directed self-loops, and one edge per pair for each label
\* of an undirected sub-graph.
PossibleEdges(n) ==
    {e \in {<<t, u, v>> : t \in AllLabels, u \in 1..n, v \in 1..n} :
        IF e[1] = DIRECTED THEN TRUE
        ELSE IF e[1] = CIRCLE_EDGE THEN e[2] # e[3]
        ELSE e[2] < e[3]}

RECURSIVE SubsetsUpTo(_, _)
SubsetsUpTo(S, k) ==
    IF k = 0 THEN {{}}
    ELSE LET smaller == SubsetsUpTo(S, k - 1) IN
         smaller \cup {E \cup {e} : E \in smaller, e \in S}

Graphs ==
    UNION {[nodes : Perms(n), edges : SubsetsUpTo(PossibleEdges(n), MaxEdges)] :
             n \in 1..MaxNodes}

\* The graphs whose nodes were inserted in increasing order.
OrderedGraphs ==
    UNION {[nodes : {Identity(n)}, edges : SubsetsUpTo(PossibleEdges(n), MaxEdges)] :
             n \in 1..MaxNodes}

\* Cell values of an input array: the simple endpoint codes and 7, which is no
\* CLearnEndpoint value.
InputCodes == {-1, 0, 1, 2, 7}

UpperPairs(n) == {c \in (1..n) \X (1..n) : c[1] < c[2]}

\* The n x n arrays with a zero diagonal in which the cell pairs of the node
\* pairs P hold the codes f gives them and every other cell is zero.
ArrayOf(n, P, f) ==
    [c \in (1..n) \X (1..n) |->
        IF c \in P THEN f[c][1]
        ELSE IF <<c[2], c[1]>> \in P THEN f[<<c[2], c[1]>>][2]
        ELSE 0]

SquareArrays(n) ==
    {ArrayOf(n, P, f) :
        <<P, f>> \in UNION {{<<P, f>> : f \in [P -> (InputCodes \X InputCodes) \ {<<0, 0>>}]} :
                              P \in {Q \in SUBSET UpperPairs(n) : Cardinality(Q) <= MaxPairs}}}

\* What a caller can hand the decoder: square arrays with a node list of the
\* right length, one short or one long, arrays that are not square, and any
\* variant tag.
DecoderInputs ==
    UNION {[rows : {n}, cols : {n}, arr : SquareArrays(n),
            arr_idx : {Identity(n), Identity(n - 1), Identity(n + 1)},
            graph_type : GraphTypes \cup {"mag"}] : n \in 1..MaxNodes}
    \cup UNION {[rows : {r}, cols : {c}, arr : {Zeros(r, c)}, arr_idx : {Identity(r)},
                 graph_type : GraphTypes] :
                  <<r, c>> \in {x \in (1..MaxNodes) \X (1..MaxNodes) : x[1] # x[2]}}

NoInput == [rows |-> 0, cols |-> 0, arr |-> Zeros(0, 0), arr_idx |-> <<>>,
            graph_type |-> "none"]
NotCalled == [status |-> "none", error |-> "none"]

\* --------------------------------------------------------------- the caller
\* A caller starts from a graph (origin = "graph") or from an array
\* (origin = "array") and calls graph_to_arr and clearn_arr_to_graph, feeding
\* each the other's result.
VARIABLES
    origin,   \* "graph" or "array": what the caller started from
    G,        \* the graph the caller started from
    M,        \* the decoder's argument: [rows, cols, arr, arr_idx, graph_type]
    order,    \* graph_to_arr's node_order argument
    enc,      \* graph_to_arr's result: [status, error, arr, arr_idx, n]
    dec       \* clearn_arr_to_graph's result: [status, error, graph]

vars == <<origin, G, M, order, enc, dec>>

Init ==
    /\ origin \in {"graph", "array"}
    /\ IF origin = "graph"
       THEN G \in Graphs /\ M = NoInput
       ELSE G = EmptyGraph /\ M \in DecoderInputs
    /\ order = NoOrder
    /\ enc = NotCalled
    /\ dec = NotCalled

\* The graph the encoder is called on.
EncoderArg == IF origin = "graph" THEN G ELSE dec.graph

\* arr, arr_idx = graph_to_arr(G)
GraphToArr ==
    /\ enc.status = "none"
    /\ origin = "graph" \/ dec.status = "ok"
    /\ order' = NoOrder
    /\ enc' = graph_to_arr(EncoderArg, NoOrder)
    /\ UNCHANGED <<origin, G, M, dec>>

\* arr, arr_idx = graph_to_arr(G, node_order=o), o a permutation of G's nodes
GraphToArrOrdered ==
    /\ enc.status = "none"
    /\ origin = "graph" \/ dec.status = "ok"
    /\ \E p \in Perms(Len(EncoderArg.nodes)) :
          /\ order' = Order(p)
          /\ enc' = graph_to_arr(EncoderArg, Order(p))
    /\ UNCHANGED <<origin, G, M, dec>>

\* graph = clearn_arr_to_graph(arr, arr_idx, graph_type) on the array the
\* caller started from
DecodeInput ==
    /\ dec.status = "none"
    /\ origin = "array"
    /\ dec' = clearn_arr_to_graph(M)
    /\ UNCHANGED <<origin, G, M, order, enc>>

\* graph = clearn_arr_to_graph(*graph_to_arr(G, ...), graph_type)
DecodeEncoded ==
    /\ dec.status = "none"
    /\ origin = "graph"
    /\ enc.status = "ok"
    /\ \E gt \in GraphTypes :
          /\ M' = [rows |-> enc.n, cols |-> enc.n, arr |-> enc.arr,
                   arr_idx |-> enc.arr_idx, graph_type |-> gt]
          /\ dec' = clearn_arr_to_graph(M')
    /\ UNCHANGED <<origin, G, order, enc>>

Next == GraphToArr \/ GraphToArrOrdered \/ DecodeInput \/ DecodeEncoded

\* Every call sequence of a caller.
Spec == Init /\ [][Next]_vars

\* The encoder alone, on graphs whose nodes were inserted in increasing order
\* (the encoder only ever compares nodes for equality, so every other graph is
\* one of these with its nodes renamed).
InitEncoder ==
    /\ origin = "graph"
    /\ G \in OrderedGraphs
    /\ M = NoInput
    /\ order = NoOrder
    /\ enc = NotCalled
    /\ dec = NotCalled

SpecEncoder == InitEncoder /\ [][GraphToArr]_vars

\* The decoder alone, on the arrays a caller can hand it.
InitDecoder ==
    /\ origin = "array"
    /\ G = EmptyGraph
    /\ M \in DecoderInputs
    /\ order = NoOrder
    /\ enc = NotCalled
    /\ dec = NotCalled

SpecDecoder == InitDecoder /\ [][DecodeInput]_vars

\* ------------------------------------------------------- what the claims use
\* The edges of G between the distinct nodes u and v.
EdgesBetween(graph, u, v) ==
    {e \in graph.edges : {e[2], e[3]} = {u, v}}

\* The labels of the edges between u and v.
LabelsBetween(graph, u, v) == {e[1] : e \in EdgesBetween(graph, u, v)}

\* The encoder was called on the caller's graph without node_order.
Encoded == origin = "graph" /\ enc.status # "none" /\ ~order.given
EncodedOk == origin = "graph" /\ enc.status = "ok" /\ ~order.given

\* The cell of the encoder's result in the row of node u and column of node v.
Cell(u, v) == enc.arr[<<IndexOf(enc.arr_idx, u), IndexOf(enc.arr_idx, v)>>]

\* u -> v is the only edge between u and v.
OnlyDirected(u, v) == u # v /\ EdgesBetween(G, u, v) = {<<DIRECTED, u, v>>}

\* C3 as the spec states it: with u -> v the only edge between u and v, the
\* encoder's array holds ARROW at [u][v] and TAIL at [v][u] (entry (i, j) is the
\* endpoint at node j).
C3_ArrowInRowOfSource ==
    EncodedOk =>
        \A u, v \in NodeSet(G) :
            OnlyDirected(u, v) => Cell(u, v) = ARROW /\ Cell(v, u) = TAIL

\* C3 amended: with u -> v the only edge between u and v, the encoder's array
\* holds TAIL at [u][v] and ARROW at [v][u]: entry (i, j) is the endpoint at
\* node i of the edges between i and j.
C3_TailInRowOfSource ==
    EncodedOk =>
        \A u, v \in NodeSet(G) :
            OnlyDirected(u, v) => Cell(u, v) = TAIL /\ Cell(v, u) = ARROW

C3_Witness ==
    /\ EncodedOk
    /\ \E u, v \in NodeSet(G) : OnlyDirected(u, v) /\ Cell(v, u) = ARROW

\* C4: in the array the encoder returns, for i # j the cells [i][j] and [j][i]
\* are both non-zero when an edge joins the nodes i and j and both zero when
\* none does, and the diagonal is zero.
C4_AdjacencySymmetry ==
    EncodedOk =>
        \A u, v \in NodeSet(G) :
            IF u = v THEN Cell(u, u) = 0
            ELSE IF EdgesBetween(G, u, v) # {}
            THEN Cell(u, v) # 0 /\ Cell(v, u) # 0
            ELSE Cell(u, v) = 0 /\ Cell(v, u) = 0

\* An accepted graph with an adjacent pair, a pair with no edge and a self-loop.
C4_Witness ==
    /\ EncodedOk
    /\ \E u, v, w \in NodeSet(G) :
          /\ u # v /\ EdgesBetween(G, u, v) # {} /\ Cell(u, v) # 0 /\ Cell(v, u) # 0
          /\ w # u /\ w # v /\ EdgesBetween(G, u, w) = {} /\ Cell(u, w) = 0
          /\ <<DIRECTED, w, w>> \in G.edges

\* C6: the encoder raises whenever some node pair of the graph carries more
\* than two edge types, whatever the rest of the graph holds.
C6_MoreThanTwoTypesRaises ==
    (Encoded /\ \E u, v \in NodeSet(G) :
                    u # v /\ Cardinality(LabelsBetween(G, u, v)) > 2)
        => enc.status = "raised"

C6_Witness ==
    /\ Encoded
    /\ enc.status = "raised"
    /\ \E u, v \in NodeSet(G) :
          u # v /\ LabelsBetween(G, u, v) = {DIRECTED, BIDIRECTED, UNDIRECTED}

\* The decoder was called on the array the caller started from.
Decoded == origin = "array" /\ dec.status # "none"

\* C7: the decoder raises whenever the array is not square, or the node list's
\* length is not the array's dimension, or a value of the array is no endpoint
\* code, or the variant tag is none of 'dag', 'admg', 'cpdag', 'pag'.
C7_InvalidInputRaises ==
    (Decoded /\ (\/ M.rows # M.cols
                 \/ Len(M.arr_idx) # M.rows
                 \/ \E r \in 1..M.rows, c \in 1..M.cols :
                        M.arr[<<r, c>>] \notin {-1, 0, 1, 2, 3, 4, 5, 6}
                 \/ M.graph_type \notin {"dag", "admg", "cpdag", "pag"}))
        => dec.status = "raised"

\* A 3x3 array of endpoint codes with two names and a known tag was refused.
C7_Witness ==
    /\ Decoded /\ dec.status = "raised"
    /\ M.rows = 3 /\ M.cols = 3 /\ Len(M.arr_idx) = 2
    /\ M.graph_type = "admg"
    /\ \A c \in DOMAIN M.arr : M.arr[c] \in CLearnEndpoint

\* a o-> b: the directed edge a -> b and the circle edge with its mark at a
\* are the only edges between a and b.
CircleArrow(a, b) ==
    a # b /\ EdgesBetween(G, a, b) = {<<DIRECTED, a, b>>, <<CIRCLE_EDGE, b, a>>}

\* C8: for a o-> b the encoder computes CIRCLE for a and ARROW for b, in the
\* visit of (a, b) and in the visit of (b, a).
C8_CircleAtTailArrowAtHead ==
    Encoded =>
        \A a, b \in NodeSet(G) :
            CircleArrow(a, b) =>
                /\ PairEndpoints(G, a, b) = Assign(CIRCLE, ARROW)
                /\ PairEndpoints(G, b, a) = Assign(ARROW, CIRCLE)

\* Some pair's edge-type set has one or two labels, one of them no EdgeType.
HasUnrecognisedLabel ==
    \E u, v \in NodeSet(G) :
        /\ u # v
        /\ Cardinality(LabelsBetween(G, u, v)) \in {1, 2}
        /\ LabelsBetween(G, u, v) \ EdgeType # {}

\* C9: the encoder raises whenever a pair's edge-type set of size one or two
\* holds a label that is no EdgeType; it returns no array for such a graph.
C9_UnrecognisedLabelRaises ==
    (Encoded /\ HasUnrecognisedLabel) => enc.status = "raised"

\* What the visit of (v, u) computes, seen from the visit of (u, v).
Mirror(p) == [p EXCEPT !.endpoint_u = p.endpoint_v, !.endpoint_v = p.endpoint_u]

\* The code the encoder's array holds for node u against node v when the
\* nodes of G are iterated in the order `nodes`.
CellUnder(nodes, u, v) ==
    graph_to_clearn_arr([nodes |-> nodes, edges |-> G.edges])
        .arr[<<IndexOf(nodes, u), IndexOf(nodes, v)>>]

\* C10: for a graph the encoder accepts, the visits of (u, v) and of (v, u)
\* compute the same codes for u and for v, and the array does not depend on
\* the order in which the nodes are iterated.
C10_VisitOrderIndependent ==
    EncodedOk =>
        /\ \A u, v \in NodeSet(G) :
              (u # v /\ EdgesBetween(G, u, v) # {}) =>
                  PairEndpoints(G, u, v) = Mirror(PairEndpoints(G, v, u))
        /\ \A p \in Perms(Len(G.nodes)) :
              \A u, v \in NodeSet(G) : CellUnder(p, u, v) = Cell(u, v)

\* Every node pair of G carries at most two of the four edge types and no
\* other label.
AtMostTwoTypesPerPair ==
    \A u, v \in NodeSet(G) :
        u # v => /\ LabelsBetween(G, u, v) \subseteq EdgeType
                 /\ Cardinality(LabelsBetween(G, u, v)) <= 2

\* The variant that matches G: 'pag' with circle edges, 'admg' without.
MatchingVariant ==
    IF \E e \in G.edges : e[1] = CIRCLE_EDGE THEN "pag" ELSE "admg"

\* C1: for a graph G with at most two of the four edge types per node pair,
\* clearn_arr_to_graph(*graph_to_arr(G), variant matching G) returns a graph
\* with the nodes of G and exactly the typed, oriented edges of G.
C1_GraphRoundTrip ==
    (Encoded /\ AtMostTwoTypesPerPair) =>
        /\ enc.status = "ok"
        /\ (dec.status # "none" /\ M.graph_type = MatchingVariant) =>
              /\ dec.status = "ok"
              /\ NodeSet(dec.graph) = NodeSet(G)
              /\ dec.graph.edges = G.edges

\* The cell pairs made of simple codes that the variant can hold: <<code in
\* [i][j], code in [j][i]>>.
LegalPairs(graph_type) ==
    {<<NULL, NULL>>, <<ARROW, TAIL>>, <<TAIL, ARROW>>}
    \cup (IF graph_type \in {"admg", "pag"} THEN {<<ARROW, ARROW>>} ELSE {})
    \cup (IF graph_type \in {"admg", "cpdag", "pag"} THEN {<<TAIL, TAIL>>} ELSE {})
    \cup (IF graph_type = "pag"
          THEN {<<CIRCLE, CIRCLE>>, <<CIRCLE, ARROW>>, <<ARROW, CIRCLE>>,
                <<CIRCLE, TAIL>>, <<TAIL, CIRCLE>>}
          ELSE {})

\* M is a square array with a zero diagonal, one name per row and only simple
\* codes legal for its variant.
SimpleLegalInput ==
    /\ M.rows = M.cols
    /\ Len(M.arr_idx) = M.rows
    /\ M.graph_type \in GraphTypes
    /\ \A i, j \in 1..M.rows :
          IF i = j THEN M.arr[<<i, i>>] = 0
          ELSE <<M.arr[<<i, j>>], M.arr[<<j, i>>]>> \in LegalPairs(M.graph_type)

\* C2: for a square array M with a zero diagonal and only simple codes legal
\* for the variant, graph_to_arr(clearn_arr_to_graph(M, order, variant))
\* returns M cell for cell, with the same node order.
C2_ArrayRoundTrip ==
    (Decoded /\ SimpleLegalInput) =>
        /\ dec.status = "ok"
        /\ (enc.status # "none" /\ ~order.given) =>
              /\ enc.status = "ok"
              /\ enc.arr_idx = M.arr_idx
              /\ enc.arr = M.arr

\* C5: graph_to_arr(G, node_order) with node_order a permutation of G's nodes
\* returns node_order as arr_idx and an array whose cell [i][j] is the cell the
\* encoding without node_order holds for the nodes node_order[i], node_order[j].
C5_NodeOrderRemapping ==
    (origin = "graph" /\ enc.status # "none" /\ order.given
        /\ graph_to_clearn_arr(G).status = "ok") =>
        /\ enc.status = "ok"
        /\ enc.arr_idx = order.seq
        /\ \A i, j \in 1..Len(order.seq) :
              enc.arr[<<i, j>>] =
                  graph_to_clearn_arr(G).arr[<<IndexOf(G.nodes, order.seq[i]),
                                               IndexOf(G.nodes, order.seq[j])>>]

====
